---- MODULE Spec2Model ----
(***************************************************************************)
(* Model of the waka-app backend (src/server.js): the multipart upload     *)
(* route and its multer disk storage, the catalog reads (/api/tracks,      *)
(* /api/artists), the spotlight chart (/api/top-monday), the external      *)
(* chart routes (/api/top-songs, /api/top-albums, /api/top-malawi) and the *)
(* user portfolio read of the design document, which the source lacks.     *)
(*                                                                         *)
(* An upload body carries at most one audio and one cover file part, in    *)
(* either order: the bodies upload.fields accepts.                         *)
(***************************************************************************)
EXTENDS Integers, Sequences, FiniteSets, TLC

\* ------------------------------------------------------------------ bounds
\* largest reading of the millisecond clock
MaxClock == 1

\* most rows of the tracks table the spotlight chart is asked over
MaxRows == 22
\* play counts are below this
MaxPlays == 3
\* most entries of a chart the feed answers with
MaxEntries == 2

\* most users of the users table
MaxUsers == 2
\* most rows of the tracks table a portfolio is asked over
MaxOwned == 3

\* null / undefined of the source (a missing form field is bound as NULL)
NULL == "null"
\* a null file name (file names are sequences of characters)
NoFile == <<>>
NoReply == [endpoint |-> "none", status |-> 0, body |-> <<>>]

\* two upload requests, which may be in flight together
Requests == {"r1", "r2"}

VARIABLES
    now,        \* Date.now(): the millisecond clock
    pc,         \* position of each upload request
    writing,    \* per request: field -> file object of a write in progress
    files,      \* req.files: field -> file object of a completed write
    params,     \* per request: the parameters bound to the INSERT
    blobs,      \* the blob store: <<directory, name>> -> request that wrote it last
    tracks,     \* rows of the tracks table
    seq,        \* sqlite_sequence of the tracks table (AUTOINCREMENT)
    created,    \* history: the inserts that succeeded, in order of completion
    res,        \* the response of each upload request
    users,      \* rows of the users table
    chart,      \* the chart request in flight and what the feed answered
    reply       \* the response of the read request just answered

vars == <<now, pc, writing, files, params, blobs, tracks, seq, created,
          res, users, chart, reply>>

\* the variables of the upload route
ingest == <<now, pc, writing, files, params, blobs, seq, created, res>>

\* ------------------------------------------------------------- file names
Whitespace == {" "}

\* String.prototype.replace(/\s+/g, "_"): every maximal run of whitespace
\* becomes one underscore
RECURSIVE Sanitize(_)
Sanitize(s) ==
    IF s = <<>> THEN <<>>
    ELSE IF Head(s) \in Whitespace
         THEN IF Len(s) > 1 /\ s[2] \in Whitespace
              THEN Sanitize(Tail(s))
              ELSE <<"_">> \o Sanitize(Tail(s))
         ELSE <<Head(s)>> \o Sanitize(Tail(s))

DigitChar == <<"0", "1", "2", "3", "4", "5", "6", "7", "8", "9">>

\* number to string conversion in Date.now() + "-"
RECURSIVE Digits(_)
Digits(n) ==
    IF n < 10 THEN <<DigitChar[n + 1]>>
    ELSE Digits(n \div 10) \o <<DigitChar[(n % 10) + 1]>>

\* storage.filename: Date.now() + "-" + originalname.replace(/\s+/g, "_")
filename(t, originalname) == Digits(t) \o <<"-">> \o Sanitize(originalname)

\* storage.destination
destination(fieldname) ==
    IF fieldname = "audio" THEN "./uploads"
    ELSE IF fieldname = "cover" THEN "./covers"
    ELSE "./uploads"

\* upload.fields: the file fields the route accepts, one file each
Fields == {"audio", "cover"}

\* the original file names a client sends
OriginalNames == { <<"a", " ", "b">>, <<"a", " ", " ", "b">> }

\* artist field of the form: absent (undefined, bound as NULL) or a string
Artists == { NULL, "Ann", "Ann ", "ann" }

Put(f, k, v) == [x \in (DOMAIN f) \cup {k} |-> IF x = k THEN v ELSE f[x]]

Drop(f, k) == [x \in (DOMAIN f) \ {k} |-> f[x]]

Empty == [x \in {} |-> NULL]

NoParams == [artist |-> NULL, file |-> NoFile, cover |-> NoFile]

NoRes == [status |-> 0, body |-> NULL]

\* no chart of the feed
NoSection == [present |-> FALSE, list |-> [is |-> "absent", items |-> <<>>]]

NoUpstream == [is |-> "none", tracks |-> NoSection, albums |-> NoSection]

NoChart == [pc |-> "idle", kind |-> NULL, upstream |-> NoUpstream]

\* ------------------------------------------------------------------- Init
\* the upload route at rest
IngestIdle ==
    /\ now = 0
    /\ pc = [r \in Requests |-> "idle"]
    /\ writing = [r \in Requests |-> Empty]
    /\ files = [r \in Requests |-> Empty]
    /\ params = [r \in Requests |-> NoParams]
    /\ blobs = Empty
    /\ seq = 0
    /\ created = <<>>
    /\ res = [r \in Requests |-> NoRes]

\* the server has started on empty tables and an empty blob store
Init ==
    /\ IngestIdle
    /\ tracks = {}
    /\ users = {}
    /\ chart = NoChart
    /\ reply = NoReply

\* ---------------------------------------------------------------- actions
\* the clock advances
Tick ==
    /\ now < MaxClock
    /\ now' = now + 1
    /\ reply' = NoReply
    /\ UNCHANGED <<pc, writing, files, params, blobs, tracks, seq, created, res,
                   users, chart>>

\* a POST /api/upload request arrives and multer starts to read its body
Receive(r) ==
    /\ pc[r] = "idle"
    /\ pc' = [pc EXCEPT ![r] = "reading"]
    /\ reply' = NoReply
    /\ UNCHANGED <<now, writing, files, params, blobs, tracks, seq, created, res,
                   users, chart>>

\* multer meets a file part of the body (the parts come in the order the
\* client sends them): storage.destination and storage.filename are called
\* and the write to the disk starts
StartWrite(r, field, originalname) ==
    /\ pc[r] = "reading"
    /\ field \notin (DOMAIN writing[r]) \cup (DOMAIN files[r])
    /\ writing' = [writing EXCEPT ![r] =
                      Put(@, field, [ originalname |-> originalname,
                                      destination  |-> destination(field),
                                      filename     |-> filename(now, originalname) ])]
    /\ reply' = NoReply
    /\ UNCHANGED <<now, pc, files, params, blobs, tracks, seq, created, res,
                   users, chart>>

\* the write of a part completes: the blob is in its directory under the
\* generated name (replacing what was there) and req.files holds the file
FinishWrite(r, field) ==
    /\ pc[r] \in {"reading", "read"}
    /\ field \in DOMAIN writing[r]
    /\ LET file == writing[r][field]
       IN /\ blobs' = Put(blobs, <<file.destination, file.filename>>, r)
          /\ files' = [files EXCEPT ![r] = Put(@, field, file)]
    /\ writing' = [writing EXCEPT ![r] = Drop(@, field)]
    /\ reply' = NoReply
    /\ UNCHANGED <<now, pc, params, tracks, seq, created, res, users, chart>>

\* the body ends
EndOfBody(r) ==
    /\ pc[r] = "reading"
    /\ pc' = [pc EXCEPT ![r] = "read"]
    /\ reply' = NoReply
    /\ UNCHANGED <<now, writing, files, params, blobs, tracks, seq, created, res,
                   users, chart>>

\* mutant: the handler is called as soon as the body is read
HandlerReadyEarly(r) == pc[r] = "read"

\* multer calls the route handler when the body is read and no write is pending
HandlerReady(r) == pc[r] = "read" /\ DOMAIN writing[r] = {}

\* mutant: the row names the file as the client named it
AudioFileOriginal(r) == files[r]["audio"].originalname

\* const audioFile = req.files.audio[0].filename
AudioFile(r) == files[r]["audio"].filename

\* const coverFile = req.files.cover ? req.files.cover[0].filename : null
CoverFile(r) ==
    IF "cover" \in DOMAIN files[r] THEN files[r]["cover"].filename ELSE NoFile

\* the route handler.  req.files.audio[0] throws when there is no audio part
\* and the catch answers 500; otherwise the INSERT is issued with the text
\* fields of the body (data.artist) and the stored names (cover null when the
\* body had no cover part).
Handler(r, artist) ==
    /\ HandlerReady(r)
    /\ IF "audio" \in DOMAIN files[r]
       THEN /\ pc' = [pc EXCEPT ![r] = "insert"]
            /\ params' = [params EXCEPT ![r] =
                  [ artist |-> artist, file |-> AudioFile(r), cover |-> CoverFile(r) ]]
            /\ res' = res
       ELSE /\ pc' = [pc EXCEPT ![r] = "done"]
            /\ params' = params
            /\ res' = [res EXCEPT ![r] = [status |-> 500, body |-> "Upload failed"]]
    /\ reply' = NoReply
    /\ UNCHANGED <<now, writing, files, blobs, tracks, seq, created, users, chart>>

\* INTEGER PRIMARY KEY AUTOINCREMENT: one more than the largest id ever used
NextId == seq + 1

\* the blob store without the blobs request r wrote
WithoutBlobsOf(r) ==
    LET mine == { <<files[r][f].destination, files[r][f].filename>> :
                     f \in DOMAIN files[r] }
    IN [ path \in (DOMAIN blobs) \ mine |-> blobs[path] ]

\* mutant: a failed insert removes the blobs of the request
InsertCallbackRollback(r, err) ==
    /\ pc[r] = "insert"
    /\ pc' = [pc EXCEPT ![r] = "done"]
    /\ IF err
       THEN /\ res' = [res EXCEPT ![r] = [status |-> 500, body |-> "DB insert failed"]]
            /\ blobs' = WithoutBlobsOf(r)
            /\ UNCHANGED <<tracks, seq, created>>
       ELSE /\ tracks' = tracks \cup
                  { [ id |-> seq + 1, artist |-> params[r].artist,
                      file |-> params[r].file, cover |-> params[r].cover ] }
            /\ seq' = seq + 1
            /\ created' = Append(created,
                  [ id |-> seq + 1, by |-> r,
                    stored |-> <<"./uploads", params[r].file>> \in DOMAIN blobs ])
            /\ res' = [res EXCEPT ![r] =
                          [status |-> 200, body |-> "Track uploaded successfully!"]]
            /\ blobs' = blobs
    /\ reply' = NoReply
    /\ UNCHANGED <<now, writing, files, params, users, chart>>

\* the callback of db.run: the insert failed (err) or the row is in the table
InsertCallback(r, err) ==
    /\ pc[r] = "insert"
    /\ pc' = [pc EXCEPT ![r] = "done"]
    /\ IF err
       THEN /\ res' = [res EXCEPT ![r] = [status |-> 500, body |-> "DB insert failed"]]
            /\ UNCHANGED <<tracks, seq, created>>
       ELSE /\ tracks' = tracks \cup
                  { [ id |-> NextId, artist |-> params[r].artist,
                      file |-> params[r].file, cover |-> params[r].cover ] }
            /\ seq' = NextId
            /\ created' = Append(created,
                  [ id |-> NextId, by |-> r,
                    stored |-> <<"./uploads", params[r].file>> \in DOMAIN blobs ])
            /\ res' = [res EXCEPT ![r] =
                          [status |-> 200, body |-> "Track uploaded successfully!"]]
    /\ reply' = NoReply
    /\ UNCHANGED <<now, writing, files, params, blobs, users, chart>>

\* ------------------------------------------------------------------ reads
\* mutant: ORDER BY id (ascending)
RECURSIVE OrderByIdAsc(_)
OrderByIdAsc(rows) ==
    IF rows = {} THEN <<>>
    ELSE LET low == CHOOSE x \in rows : \A y \in rows : x.id <= y.id
         IN <<low>> \o OrderByIdAsc(rows \ {low})

\* ORDER BY id DESC
RECURSIVE OrderByIdDesc(_)
OrderByIdDesc(rows) ==
    IF rows = {} THEN <<>>
    ELSE LET top == CHOOSE x \in rows : \A y \in rows : y.id <= x.id
         IN <<top>> \o OrderByIdDesc(rows \ {top})

\* GET /api/tracks: SELECT * FROM tracks ORDER BY id DESC
GetTracks(err) ==
    /\ reply' = IF err
                THEN [endpoint |-> "tracks", status |-> 500,
                      body |-> <<"Failed to fetch tracks">>]
                ELSE [endpoint |-> "tracks", status |-> 200,
                      body |-> OrderByIdDesc(tracks)]
    /\ UNCHANGED <<ingest, tracks, users, chart>>

\* the characters of a stored name in the order of their codes (BINARY collation)
CharOrder == <<" ", "-", "0", "1", "2", "3", "4", "5", "6", "7", "8", "9",
               "_", "a", "b">>

CharRank(c) == CHOOSE i \in 1..Len(CharOrder) : CharOrder[i] = c

\* s < t as SQLite compares two TEXT values
RECURSIVE TextLess(_, _)
TextLess(s, t) ==
    IF t = <<>> THEN FALSE
    ELSE IF s = <<>> THEN TRUE
    ELSE IF Head(s) = Head(t) THEN TextLess(Tail(s), Tail(t))
    ELSE CharRank(Head(s)) < CharRank(Head(t))

\* MAX(cover) over the rows of a group: NULL values are skipped, and the
\* result is NULL when every cover is NULL
MaxCover(rows) ==
    LET covers == { x.cover : x \in rows } \ {NoFile}
    IN IF covers = {} THEN NoFile
       ELSE CHOOSE c \in covers : \A d \in covers : d = c \/ TextLess(d, c)

\* mutant: COUNT(artist), which does not count NULL
CountArtist(rows, a) == Cardinality({ x \in rows : x.artist = a /\ x.artist # NULL })

\* COUNT(*) of the group of artist a (NULL artists form one group)
CountStar(rows, a) == Cardinality({ x \in rows : x.artist = a })

\* the values of the artist column in the order GROUP BY returns them:
\* NULL first, then text by character codes
ArtistOrder == <<NULL, "Ann", "Ann ", "ann">>

\* SELECT artist, COUNT(*) as trackCount, MAX(cover) as cover
\* FROM tracks GROUP BY artist
RECURSIVE GroupByArtist(_, _)
GroupByArtist(rows, i) ==
    IF i > Len(ArtistOrder) THEN <<>>
    ELSE LET a == ArtistOrder[i]
             group == { x \in rows : x.artist = a }
         IN (IF group = {} THEN <<>>
             ELSE << [ artist |-> a, trackCount |-> CountStar(rows, a),
                       cover |-> MaxCover(group) ] >>)
            \o GroupByArtist(rows, i + 1)

DefaultCover == <<"default.jpg">>

\* rows.map(r => ({name, trackCount, cover: r.cover || "default.jpg"}))
MapArtists(rows) ==
    [ i \in 1..Len(rows) |->
        [ name |-> rows[i].artist, trackCount |-> rows[i].trackCount,
          cover |-> IF rows[i].cover = NoFile THEN DefaultCover ELSE rows[i].cover ] ]

\* insertion of x into a list sorted by descending trackCount, after its equals
RECURSIVE InsertByCount(_, _)
InsertByCount(x, list) ==
    IF list = <<>> THEN <<x>>
    ELSE IF x.trackCount > Head(list).trackCount THEN <<x>> \o list
    ELSE <<Head(list)>> \o InsertByCount(x, Tail(list))

\* artists.sort((a, b) => b.trackCount - a.trackCount): stable
RECURSIVE SortByCount(_)
SortByCount(list) ==
    IF list = <<>> THEN <<>>
    ELSE InsertByCount(list[Len(list)], SortByCount(SubSeq(list, 1, Len(list) - 1)))

\* GET /api/artists
GetArtists(err) ==
    /\ reply' = IF err
                THEN [endpoint |-> "artists", status |-> 500,
                      body |-> <<"Failed to fetch artists">>]
                ELSE [endpoint |-> "artists", status |-> 200,
                      body |-> SortByCount(MapArtists(GroupByArtist(tracks, 1)))]
    /\ UNCHANGED <<ingest, tracks, users, chart>>

\* the steps of an upload
Ingest ==
    \/ \E r \in Requests : Receive(r)
    \/ \E r \in Requests, field \in Fields, name \in OriginalNames :
          StartWrite(r, field, name)
    \/ \E r \in Requests, field \in Fields : FinishWrite(r, field)
    \/ \E r \in Requests : EndOfBody(r)
    \/ \E r \in Requests, artist \in Artists : Handler(r, artist)
    \/ \E r \in Requests, err \in BOOLEAN : InsertCallback(r, err)

\* uploads against the clock
Next ==
    \/ Tick
    \/ Ingest

Spec == Init /\ [][Next]_vars

\* uploads and the catalog reads, within one reading of the clock
NextCatalog ==
    \/ Ingest
    \/ \E err \in BOOLEAN : GetTracks(err)
    \/ \E err \in BOOLEAN : GetArtists(err)

SpecCatalog == Init /\ [][NextCatalog]_vars

\* ------------------------------------------------ properties of the upload
\* the file objects of a request: writes in progress and completed writes
Started(r) == (DOMAIN writing[r]) \cup (DOMAIN files[r])

FileOf(r, field) ==
    IF field \in DOMAIN files[r] THEN files[r][field] ELSE writing[r][field]

\* the inserts of request r that succeeded
RowsBy(r) == { i \in 1..Len(created) : created[i].by = r }

\* the handler of r has run
Handled(r) == pc[r] \in {"insert", "done"}

\* the handler of r issued the INSERT
Issued(r) == Handled(r) /\ params[r].file # NoFile

\* C1: an upload without an audio part ends in a validation error (a 4xx
\* status) and inserts no row.
C1_NoAudioIsValidationError ==
    \A r \in Requests :
        (pc[r] = "done" /\ "audio" \notin DOMAIN files[r])
            => /\ res[r].status \in 400..499
               /\ RowsBy(r) = {}

\* C2: two uploads whose files have the same original name get distinct
\* stored names in the directory they share, so neither overwrites the other.
C2_DistinctStoredNames ==
    \A r1, r2 \in Requests : \A field \in Fields :
        ( /\ r1 # r2
          /\ field \in Started(r1) /\ field \in Started(r2)
          /\ FileOf(r1, field).originalname = FileOf(r2, field).originalname )
            => FileOf(r1, field).filename # FileOf(r2, field).filename

\* C3: every row of the tracks table has a non-null file, and the blob that
\* the file names was in ./uploads when the insert of the row succeeded.
C3_AudioBlobStored ==
    /\ \A row \in tracks : row.file # NoFile
    /\ \A i \in 1..Len(created) :
          /\ created[i].stored
          /\ \E row \in tracks : row.id = created[i].id
    /\ Cardinality(tracks) = Len(created)

C3_Witness ==
    \E row \in tracks : row.cover # NoFile /\ <<"./uploads", row.file>> \in DOMAIN blobs

InsertFailed(r) == pc[r] = "done" /\ Issued(r) /\ RowsBy(r) = {}

C5_InsertFailureKeepsBlobs ==
    /\ [](\A r \in Requests :
            InsertFailed(r) =>
               /\ res[r] = [status |-> 500, body |-> "DB insert failed"]
               /\ \A field \in DOMAIN files[r] :
                     <<files[r][field].destination, files[r][field].filename>>
                         \in DOMAIN blobs)
    /\ [][\A r \in Requests :
            (~InsertFailed(r) /\ InsertFailed(r)') =>
               (blobs' = blobs /\ tracks' = tracks)]_vars

C5_Witness ==
    \E r \in Requests : InsertFailed(r) /\ DOMAIN files[r] = Fields


\* ----------------------------------------------- properties of the catalog
RECURSIVE SumCounts(_)
SumCounts(list) ==
    IF list = <<>> THEN 0 ELSE Head(list).trackCount + SumCounts(Tail(list))

\* C6: the trackCount values GET /api/artists returns add up to the number of
\* rows of the tracks table, every row being counted in exactly one group
\* (NULL artists form a group; names that differ in case are different groups).
C6_ArtistCountsSumToTotal ==
    (reply.endpoint = "artists" /\ reply.status = 200) =>
        /\ SumCounts(reply.body) = Cardinality(tracks)
        /\ \A i, j \in 1..Len(reply.body) :
              reply.body[i].name = reply.body[j].name => i = j
        /\ \A row \in tracks :
              \E i \in 1..Len(reply.body) :
                 /\ reply.body[i].name = row.artist
                 /\ reply.body[i].trackCount =
                       Cardinality({ x \in tracks : x.artist = row.artist })

\* the roster of a table with a row without artist and a row with one
C6_Witness ==
    /\ reply.endpoint = "artists" /\ reply.status = 200
    /\ Len(reply.body) = 2
    /\ \E row \in tracks : row.artist = NULL

Reverse(list) == [ i \in 1..Len(list) |-> list[Len(list) + 1 - i] ]

\* C10: GET /api/tracks returns every row whose insert succeeded once, the
\* latest insert first; ids grow with the order of insert completion and no
\* row ever leaves the table.
C10_TracksNewestFirst ==
    /\ []( /\ \A i, j \in 1..Len(created) : i < j => created[i].id < created[j].id
           /\ (reply.endpoint = "tracks" /\ reply.status = 200) =>
                 /\ Len(reply.body) = Len(created)
                 /\ \A i \in 1..Len(reply.body) :
                       /\ reply.body[i] \in tracks
                       /\ reply.body[i].id = Reverse(created)[i].id )
    /\ [][tracks \subseteq tracks']_vars

\* the list of a table of two rows
C10_Witness ==
    reply.endpoint = "tracks" /\ reply.status = 200 /\ Len(reply.body) = 2


\* ------------------------------------------------------- spotlight chart
\* LIMIT 20 of /api/top-monday
MondayLimit == 20

\* a tracks table of n rows (id, title, artist, cover, plays, top_monday):
\* row i has plays (i * p) % MaxPlays; top_monday is 1, but 0 or 2 in every
\* k-th row
MondayTable(n, k, p) ==
    { [ id |-> i, title |-> "t", artist |-> "Ann", cover |-> NoFile,
        plays |-> (i * p) % MaxPlays,
        top_monday |-> IF k = 0 \/ i % k # 0 THEN 1 ELSE 2 * (i % 2) ] : i \in 1..n }

\* WHERE top_monday = 1
WhereTopMonday(rows) == { x \in rows : x.top_monday = 1 }

\* mutant: ORDER BY plays (ascending)
RECURSIVE OrderByPlaysAsc(_)
OrderByPlaysAsc(rows) ==
    IF rows = {} THEN <<>>
    ELSE LET low == CHOOSE x \in rows : \A y \in rows :
                        x.plays < y.plays \/ (x.plays = y.plays /\ x.id <= y.id)
         IN <<low>> \o OrderByPlaysAsc(rows \ {low})

\* ORDER BY plays DESC; rows of equal plays stay in the order of their ids
RECURSIVE OrderByPlaysDesc(_)
OrderByPlaysDesc(rows) ==
    IF rows = {} THEN <<>>
    ELSE LET top == CHOOSE x \in rows : \A y \in rows :
                        x.plays > y.plays \/ (x.plays = y.plays /\ x.id <= y.id)
         IN <<top>> \o OrderByPlaysDesc(rows \ {top})

\* mutant: the limit lets one more row through
LimitPlusOne(list, n) == SubSeq(list, 1, IF Len(list) < n + 1 THEN Len(list) ELSE n + 1)

\* LIMIT n
Limit(list, n) == SubSeq(list, 1, IF Len(list) < n THEN Len(list) ELSE n)

\* SELECT id, title, artist, cover, plays
SelectMonday(list) ==
    [ i \in 1..Len(list) |->
        [ id |-> list[i].id, title |-> list[i].title, artist |-> list[i].artist,
          cover |-> list[i].cover, plays |-> list[i].plays ] ]

\* GET /api/top-monday
GetTopMonday(err) ==
    /\ reply' = IF err
                THEN [endpoint |-> "top-monday", status |-> 500,
                      body |-> <<"Failed to fetch Monday tracks">>]
                ELSE [endpoint |-> "top-monday", status |-> 200,
                      body |-> SelectMonday(Limit(OrderByPlaysDesc(
                                   WhereTopMonday(tracks)), MondayLimit))]
    /\ UNCHANGED <<ingest, tracks, users, chart>>

\* the server starts on a database file holding any tracks table
InitMonday ==
    /\ IngestIdle
    /\ \E n \in 0..MaxRows, k \in 0..MaxRows, p \in 0..MaxPlays :
          tracks = MondayTable(n, k, p)
    /\ users = {}
    /\ chart = NoChart
    /\ reply = NoReply

NextMonday == \E err \in BOOLEAN : GetTopMonday(err)

SpecMonday == InitMonday /\ [][NextMonday]_vars

Flagged == { x \in tracks : x.top_monday = 1 }

\* C7: GET /api/top-monday returns at most 20 entries, each a row with
\* top_monday set, in descending order of plays, and no row with top_monday
\* set that is left out has more plays than a returned one.
C7_TopMondayChart ==
    (reply.endpoint = "top-monday" /\ reply.status = 200) =>
        LET body == reply.body
            ids == { body[i].id : i \in 1..Len(body) }
        IN /\ Len(body) <= 20
           /\ \A i \in 1..Len(body) :
                 \E x \in Flagged : x.id = body[i].id /\ x.plays = body[i].plays
           /\ \A i, j \in 1..Len(body) : i < j => body[i].plays >= body[j].plays
           /\ \A x \in Flagged : x.id \notin ids =>
                 \A i \in 1..Len(body) : x.plays <= body[i].plays

\* the chart of a table with more than 20 flagged rows of different plays
C7_Witness ==
    /\ reply.endpoint = "top-monday" /\ reply.status = 200
    /\ Len(reply.body) = 20
    /\ Cardinality(Flagged) > 20
    /\ reply.body[1].plays > reply.body[20].plays
    /\ \E x \in tracks : x.top_monday # 1

\* -------------------------------------------------------- external charts
\* the chart routes and, for each, the field of the answer that holds the
\* chart and the field of that field that holds the list
ChartKinds == {"top-songs", "top-albums", "top-malawi"}

Outer(kind) == IF kind = "top-albums" THEN "albums" ELSE "tracks"

ChartError(kind) ==
    IF kind = "top-songs" THEN "Failed to fetch top songs"
    ELSE IF kind = "top-albums" THEN "Failed to fetch top albums"
    ELSE "Failed to fetch Malawi tracks"

\* an entry of a list: null, or an object with a name ("" when it has none),
\* an artist (absent, or an object with a name, "" when it has none) and an
\* image list of {"#text"} objects
Images == { <<>>, <<"s", "m">>, <<"s", "m", "">>, <<"s", "m", "l">> }

Entries ==
    [ null : {TRUE}, name : {""}, artist : {[present |-> FALSE, name |-> ""]},
      image : {<<>>} ]
    \cup
    [ null : {FALSE}, name : {"", "Song"},
      artist : { [present |-> FALSE, name |-> ""], [present |-> TRUE, name |-> ""],
                 [present |-> TRUE, name |-> "Ann"] },
      image : Images ]

Lists == UNION { [1..n -> Entries] : n \in 0..MaxEntries }

\* the value under the inner field: absent (or another falsy value), a value
\* that is no array, or an array
Inner ==
    { [is |-> "absent", items |-> <<>>], [is |-> "other", items |-> <<>>] }
    \cup { [is |-> "array", items |-> l] : l \in Lists }

\* the value under the outer field: absent (or falsy), or an object
Sections ==
    { NoSection }
    \cup { [present |-> TRUE, list |-> l] : l \in Inner }

\* what the feed answers: no answer (the fetch rejects), a body that is not
\* JSON (an empty body is one), the JSON null, or a JSON object with a chart
\* under "tracks" or under "albums" or under neither
Upstreams ==
    { [is |-> "network error", tracks |-> NoSection, albums |-> NoSection],
      [is |-> "not json", tracks |-> NoSection, albums |-> NoSection],
      [is |-> "json null", tracks |-> NoSection, albums |-> NoSection] }
    \cup { [is |-> "json", tracks |-> sec, albums |-> NoSection] : sec \in Sections }
    \cup { [is |-> "json", tracks |-> NoSection, albums |-> sec] : sec \in Sections }

DefaultChartCover == "/covers/default.png"

\* t => ({ title: t.name || "Unknown", artist: t.artist?.name || "Unknown",
\*         cover: t.image?.[2]?.["#text"] || "/covers/default.png" })
Normalize(t) ==
    [ title  |-> IF t.name = "" THEN "Unknown" ELSE t.name,
      artist |-> IF ~t.artist.present \/ t.artist.name = "" THEN "Unknown"
                 ELSE t.artist.name,
      cover  |-> IF Len(t.image) < 3 \/ t.image[3] = "" THEN DefaultChartCover
                 ELSE t.image[3] ]

\* mutant: data.tracks.track.map(...) without the test before it, which
\* throws when the chart or its list is missing
ThrowsOnMissing(kind, up) ==
    \/ up.is \in {"network error", "not json", "json null"}
    \/ LET sec == up[Outer(kind)]
       IN \/ ~sec.present
          \/ sec.list.is \in {"absent", "other"}
          \/ \E i \in 1..Len(sec.list.items) : sec.list.items[i].null

\* the statements of the try block throw: fetch rejects, response.json()
\* rejects, data is null, the list is no array (it has no map), or an entry
\* of the list is null
Throws(kind, up) ==
    \/ up.is \in {"network error", "not json", "json null"}
    \/ LET sec == up[Outer(kind)]
       IN /\ sec.present
          /\ \/ sec.list.is = "other"
             \/ /\ sec.list.is = "array"
                /\ \E i \in 1..Len(sec.list.items) : sec.list.items[i].null

\* (data.tracks && data.tracks.track) ? data.tracks.track.map(...) : []
ChartList(kind, up) ==
    LET sec == up[Outer(kind)]
    IN IF sec.present /\ sec.list.is = "array"
       THEN [ i \in 1..Len(sec.list.items) |-> Normalize(sec.list.items[i]) ]
       ELSE <<>>

\* GET /api/top-songs, /api/top-albums, /api/top-malawi: the fetch is sent
ChartRequest(kind) ==
    /\ chart.pc = "idle"
    /\ chart' = [pc |-> "fetching", kind |-> kind, upstream |-> NoUpstream]
    /\ reply' = NoReply
    /\ UNCHANGED <<ingest, tracks, users>>

\* the feed answers (or the fetch fails) and the route responds
ChartResponse(up) ==
    /\ chart.pc = "fetching"
    /\ chart' = [pc |-> "idle", kind |-> chart.kind, upstream |-> up]
    /\ reply' =
          IF Throws(chart.kind, up)
          THEN [endpoint |-> chart.kind, status |-> 500,
                body |-> <<ChartError(chart.kind)>>]
          ELSE [endpoint |-> chart.kind, status |-> 200,
                body |-> ChartList(chart.kind, up)]
    /\ UNCHANGED <<ingest, tracks, users>>

NextChart ==
    \/ \E kind \in ChartKinds : ChartRequest(kind)
    \/ chart.pc = "fetching" /\ \E up \in Upstreams : ChartResponse(up)

SpecChart == Init /\ [][NextChart]_vars

\* a chart route has answered the request whose feed answer is chart.upstream
Answered == chart.pc = "idle" /\ reply.endpoint \in ChartKinds

TheList == chart.upstream[Outer(chart.kind)].list

\* the answer of the feed is a JSON object without the chart, without the
\* list of the chart, or with an empty list
NoEntries ==
    /\ chart.upstream.is = "json"
    /\ \/ ~chart.upstream[Outer(chart.kind)].present
       \/ TheList.is = "absent"
       \/ TheList.is = "array" /\ TheList.items = <<>>

\* the answer of the feed is not JSON (an empty body too), or is JSON of
\* another shape than an object with a list of entry objects
Malformed ==
    \/ chart.upstream.is \in {"not json", "json null"}
    \/ /\ chart.upstream.is = "json"
       /\ chart.upstream[Outer(chart.kind)].present
       /\ \/ TheList.is = "other"
          \/ \E i \in 1..Len(TheList.items) : TheList.items[i].null

\* C9 as stated: a malformed or empty answer of the feed makes the chart
\* route return an empty array, not an error.
C9_MalformedGivesEmptyArray ==
    (Answered /\ (Malformed \/ NoEntries)) =>
        (reply.status = 200 /\ reply.body = <<>>)

\* C9 amended: a JSON object without the chart, without its list or with an
\* empty list makes the chart route return an empty array; an answer that is
\* not JSON, the JSON null, a list that is no array or a null entry makes it
\* return 500 with the error of the route.
C9_MissingListGivesEmptyArray ==
    /\ (Answered /\ NoEntries) => (reply.status = 200 /\ reply.body = <<>>)
    /\ (Answered /\ Malformed) =>
          (reply.status = 500 /\ reply.body = <<ChartError(chart.kind)>>)

\* the feed answered {} to the albums chart
C9_Witness ==
    /\ Answered /\ NoEntries
    /\ chart.kind = "top-albums"
    /\ ~chart.upstream.albums.present
    /\ reply.body = <<>>

\* ---------------------------------------------------------- user portfolio
\* a row of the users table
UserRow(id) == [ id |-> id, username |-> <<"user", id>>, bio |-> "bio", joined |-> id ]

\* the user summary of an identifier no user has
NoUser == [ id |-> 0, username |-> <<>>, bio |-> NULL, joined |-> 0 ]

\* the tracks table with the owning user of each row (0: no owner)
OwnedTable(owner) ==
    { [ id |-> i, artist |-> "Ann", file |-> <<"0", "-", "a">>, cover |-> NoFile,
        uploaded_by |-> owner[i] ] : i \in DOMAIN owner }

\* mutant: the portfolio holds every track
PortfolioUnfiltered(userId) ==
    IF \E u \in users : u.id = userId THEN OrderByIdDesc(tracks) ELSE <<>>

\* the tracks whose owning user is userId, newest first; none when no user
\* has the identifier
PortfolioOf(userId) ==
    IF \E u \in users : u.id = userId
    THEN OrderByIdDesc({ x \in tracks : x.uploaded_by = userId })
    ELSE <<>>

\* the profile summary of userId, null when no user has the identifier
SummaryOf(userId) ==
    IF \E u \in users : u.id = userId
    THEN CHOOSE u \in users : u.id = userId
    ELSE NoUser

\* GET /api/user-portfolio/:userId
GetUserPortfolio(userId) ==
    /\ reply' = [ endpoint |-> "user-portfolio", status |-> 200,
                  body |-> [ id |-> userId, user |-> SummaryOf(userId),
                             portfolio |-> PortfolioOf(userId) ] ]
    /\ UNCHANGED <<ingest, tracks, users, chart>>

\* the server starts on a database file holding users and tracks, every
\* owner of a track being a user
InitPortfolio ==
    /\ IngestIdle
    /\ \E ids \in SUBSET (1..MaxUsers) :
          /\ users = { UserRow(id) : id \in ids }
          /\ \E n \in 0..MaxOwned : \E owner \in [1..n -> ids \cup {0}] :
                tracks = OwnedTable(owner)
    /\ chart = NoChart
    /\ reply = NoReply

NextPortfolio == \E userId \in 1..(MaxUsers + 1) : GetUserPortfolio(userId)

SpecPortfolio == InitPortfolio /\ [][NextPortfolio]_vars

\* C8: GET /api/user-portfolio/:userId gives a user without tracks a summary
\* and an empty portfolio, an identifier of no user a null summary and an
\* empty portfolio with a success status, and a user exactly the tracks whose
\* owning user is the identifier.
C8_UserPortfolio ==
    reply.endpoint = "user-portfolio" =>
        LET userId == reply.body.id
            owned  == { x \in tracks : x.uploaded_by = userId }
            listed == { reply.body.portfolio[i] : i \in 1..Len(reply.body.portfolio) }
        IN /\ reply.status = 200
           /\ IF \E u \in users : u.id = userId
              THEN /\ reply.body.user # NoUser
                   /\ reply.body.user.id = userId
                   /\ listed = owned
                   /\ Len(reply.body.portfolio) = Cardinality(owned)
              ELSE /\ reply.body.user = NoUser
                   /\ reply.body.portfolio = <<>>

\* the portfolio of a user without tracks, in a table that has tracks
C8_Witness ==
    /\ reply.endpoint = "user-portfolio"
    /\ reply.body.user # NoUser
    /\ reply.body.portfolio = <<>>
    /\ tracks # {}

====
